---- MODULE Spec2Model ----
(***************************************************************************)
(* Model of the segmentation-and-voting inference pipeline of the          *)
(* alzheimer-speech-classifier repository.                                  *)
(*                                                                          *)
(* Two copies of the pipeline live in the repository and both are          *)
(* modelled; the variable `variant` says which one a behaviour runs:       *)
(*   "backend"  src/backend/src/*.py driven by src/backend/api/server.py   *)
(*   "server"   src/server/server/*.py driven by src/server/server/server.py*)
(* backend/src/prediction_script.py imports predict, save_predictions and  *)
(* weighted_majority_voting (and extract_all_features) by name; the only   *)
(* definitions of these names are in src/server/server/prediction.py and   *)
(* src/server/server/acoustic_extraction.py, which are modelled for both.  *)
(*                                                                          *)
(* Units: audio lengths are pydub lengths, whole milliseconds.             *)
(* Probabilities are whole hundredths (28 is 0.28); float rounding is not  *)
(* modelled.  Every library call on the file system (rmtree, makedirs,     *)
(* listdir, export, remove, save) is one atomic step that succeeds unless  *)
(* the state makes it fail (a missing directory, a missing file).          *)
(***************************************************************************)
EXTENDS Integers, Sequences, FiniteSets, TLC

VARIABLES
    variant,                 \* which copy of the program runs
    seg_pc, seg_in, seg_out, \* segmentation applied to one decoded clip
    vote_pc, vote_in, vote_out,  \* the voting rule applied to one table
    selected_language_code,  \* server.py global, "None" until set
    UPLOAD_STATUS,           \* server.py global UPLOAD_STATUS["complete"]
    clock,                   \* datetime.now() at the last upload, in seconds
    served,                  \* number of HTTP requests received so far
    uploads,                 \* upload folders: files in order of mtime
    processed_audio,         \* segment folders: existence and files
    predictions_csv,         \* outputs/predictions.csv: existence and rows
    scaler,                  \* models/scaler.joblib as loaded: fitted or not
    req                      \* the worker threads serving /get_classification

segvars == <<seg_pc, seg_in, seg_out>>
votevars == <<vote_pc, vote_in, vote_out>>
httpvars == <<selected_language_code, UPLOAD_STATUS, clock, served>>
fsvars == <<uploads, processed_audio, predictions_csv>>
sysvars == <<httpvars, fsvars, req>>
vars == <<variant, scaler, segvars, votevars, sysvars>>

(***************************************************************************)
(* Bounds of the model                                                      *)
(***************************************************************************)
MaxDurationMs == 60500   \* longest clip given to the segmenter alone
MaxRows == 3             \* longest table given to the voting rule alone

(***************************************************************************)
(* Program constants                                                        *)
(***************************************************************************)
twenty_sec_ms == 20000   \* segmentation.py: twenty_sec_ms = 20 * 1000
threshold == 28          \* prediction_script.py: threshold = 0.28
ProbScale == 100         \* prediction.py: the 1 of (1 - Probability), in hundredths

Min(a, b) == IF a < b THEN a ELSE b

(***************************************************************************)
(* Segmenter: process_short_audio / process_long_audio                      *)
(*                                                                          *)
(* A written segment file is a record                                       *)
(*   ord     0 for "<base>.wav", i for "<base>_segment<i>.wav"              *)
(*   start   offset in the clip of the piece the segment is built from     *)
(*   piece   length of that piece                                           *)
(*   looped  length of the piece repeated, before truncation                *)
(*   len     length of the exported segment                                 *)
(* so the exported audio at offset t < len is the clip's audio at          *)
(* start + (t % piece).                                                     *)
(***************************************************************************)
\* repeats = (target_ms // duration_ms) + 1 without the extra repetition
repeats_no_extra(target_ms, length_ms) == target_ms \div length_ms

\* repeats = (target_ms // duration_ms) + 1; the division raises on 0
repeats(target_ms, length_ms) == (target_ms \div length_ms) + 1

\* (piece * repeats)[:target_ms] of a piece audio[start : start + piece_ms]
LoopAndTruncate(ord, start, piece_ms, target_ms) ==
    LET looped == piece_ms * repeats(target_ms, piece_ms)
    IN  [ord |-> ord, start |-> start, piece |-> piece_ms,
         looped |-> looped, len |-> Min(looped, target_ms)]

\* audio[start_ms:end_ms] exported as segment i+1
FullSegment(i, duration_ms, segment_ms) ==
    LET start_ms == i * segment_ms
        end_ms == start_ms + segment_ms
        n == Min(end_ms, duration_ms) - start_ms
    IN  [ord |-> i + 1, start |-> start_ms, piece |-> n, looped |-> n, len |-> n]

\* The outcome of a segmenter helper: the files it exported, in the order
\* of export, and whether it raised (ZeroDivisionError on an empty clip).
process_short_audio(duration_ms, target_ms) ==
    IF duration_ms = 0
    THEN [raised |-> TRUE, files |-> <<>>]
    ELSE [raised |-> FALSE,
          files |-> <<LoopAndTruncate(0, 0, duration_ms, target_ms)>>]

\* process_long_audio with the last segment looped from the whole clip
process_long_audio_whole_clip(duration_ms, segment_ms) ==
    LET num_segments == duration_ms \div segment_ms
        remainder_ms == duration_ms % segment_ms
        full == [i \in 1..num_segments |->
                    FullSegment(i - 1, duration_ms, segment_ms)]
    IN  [raised |-> FALSE,
         files |-> IF remainder_ms > 0
                   THEN Append(full, LoopAndTruncate(num_segments + 1, 0,
                                         duration_ms, segment_ms))
                   ELSE full]

process_long_audio(duration_ms, segment_ms) ==
    LET num_segments == duration_ms \div segment_ms
        remainder_ms == duration_ms % segment_ms
        full == [i \in 1..num_segments |->
                    FullSegment(i - 1, duration_ms, segment_ms)]
    IN  [raised |-> FALSE,
         files |-> IF remainder_ms > 0
                   THEN Append(full, LoopAndTruncate(num_segments + 1,
                                         duration_ms - remainder_ms,
                                         remainder_ms, segment_ms))
                   ELSE full]

\* process_single_audio_file once the clip is decoded: duration_ms = len(audio)
SegmentDecoded(duration_ms) ==
    IF duration_ms < twenty_sec_ms
    THEN process_short_audio(duration_ms, twenty_sec_ms)
    ELSE process_long_audio(duration_ms, twenty_sec_ms)

(***************************************************************************)
(* Aggregator: weighted_majority_voting                                     *)
(* A row of the table is a record with fields Prediction and Probability.  *)
(***************************************************************************)
RECURSIVE SumSeq(_)
SumSeq(s) == IF s = <<>> THEN 0 ELSE Head(s) + SumSeq(Tail(s))

\* df[df['Prediction'] == 1]['Probability'].sum()
weighted_sum_1(df) ==
    SumSeq([i \in 1..Len(df) |->
              IF df[i].Prediction = 1 THEN df[i].Probability ELSE 0])

\* the negative weight taken as the probability itself, not 1 - probability
weighted_sum_0_of_probability(df) ==
    SumSeq([i \in 1..Len(df) |->
              IF df[i].Prediction = 0 THEN df[i].Probability ELSE 0])

\* (1 - df[df['Prediction'] == 0]['Probability']).sum()
weighted_sum_0(df) ==
    SumSeq([i \in 1..Len(df) |->
              IF df[i].Prediction = 0 THEN ProbScale - df[i].Probability ELSE 0])

\* the voting rule with the tie given to the positive label
weighted_majority_voting_tie_positive(df) ==
    IF weighted_sum_1(df) >= weighted_sum_0(df) THEN 1 ELSE 0

weighted_majority_voting(df) ==
    IF weighted_sum_1(df) > weighted_sum_0(df) THEN 1 ELSE 0

\* classification_label = "HC" if classification_result == 0 else "AD"
ClassificationLabel(classification_result) ==
    IF classification_result = 0 THEN "HC" ELSE "AD"

(***************************************************************************)
(* The deployed system: HTTP handlers, folders and uploaded recordings      *)
(***************************************************************************)
Variants == {"backend", "server"}
NoOutcome == [raised |-> FALSE, files |-> <<>>]

MaxClock == 2    \* last second at which an upload is stamped
MaxReenc == 1    \* most "_reencoded" suffixes in a file name
MaxServed == 5   \* most HTTP requests received in one behaviour

Requests == {1, 2}    \* worker threads, one per request in flight

\* transcription.py: language_models
language_models == {"en", "de", "es", "zh", "el", "ar"}
\* language codes the client sends
LanguageCodes == {"en", "fr"}

\* What a recording is: its pydub length in ms and how it decodes.
\*   native       AudioSegment.from_file decodes it
\*   odd          from_file raises CouldntDecodeError; ffmpeg re-encodes it
\*                into a decodable WAV
\*   no_ffmpeg    from_file raises CouldntDecodeError; ffmpeg exits non-zero
\*   undecodable  from_file raises CouldntDecodeError; ffmpeg writes a file
\*                that from_file cannot decode either
\* lengths uploaded: an empty clip, a short one, a long one with a remainder
ClipDurations == {0, 7000, 25000}
Recordings ==
    [dur : ClipDurations, codec : {"native"}]
        \cup {[dur |-> 7000, codec |-> "odd"],
              [dur |-> 0, codec |-> "no_ffmpeg"],
              [dur |-> 0, codec |-> "undecodable"]}
TestRecording == [dur |-> 7000, codec |-> "native"]
NoAudio == [dur |-> 0, codec |-> "none"]

\* File names in an upload folder: <stem>[_<ts>](_reencoded)*.wav
NoName == [stem |-> "none", ts |-> 0, re |-> 0]
RecordingWav == [stem |-> "recording", ts |-> 0, re |-> 0]
TestConnectionWav == [stem |-> "test_connection", ts |-> 0, re |-> 0]
\* secure_filename(f"recording_{datetime.now().strftime(...)}.wav")
StampedWav(now) == [stem |-> "recording", ts |-> now, re |-> 0]
\* reencode_audio: f"{base}_reencoded.wav"
ReencodedName(name) == [name EXCEPT !.re = @ + 1]

\* Folders.  The two copies of the program place them differently.
ApiUploads == "api/uploads"
RootUploads == "uploads"
ApiProcessed == "api/processed_audio"
RootProcessed == "processed_audio"
\* server.py: UPLOAD_FOLDER, PROCESSED_FOLDER
UPLOAD_FOLDER == IF variant = "backend" THEN ApiUploads ELSE RootUploads
PROCESSED_FOLDER == IF variant = "backend" THEN ApiProcessed ELSE RootProcessed
\* prediction_script.py: UPLOAD_DIR, PROCESSED_DIR (processed_folder)
UPLOAD_DIR == RootUploads
PROCESSED_DIR == RootProcessed

NoCsv == [exists |-> FALSE, rows |-> <<>>]
EmptyDir == [exists |-> TRUE, files |-> {}]
NoDir == [exists |-> FALSE, files |-> {}]

\* os.path.isfile / the file's content
HasFile(folder, name) == \E k \in 1..Len(uploads[folder]) : uploads[folder][k].name = name
FileRec(folder, name) ==
    LET k == CHOOSE k \in 1..Len(uploads[folder]) : uploads[folder][k].name = name
    IN  uploads[folder][k].rec
RemoveName(files, name) == SelectSeq(files, LAMBDA f : f.name # name)
\* file.save / ffmpeg -y: (over)write the file, which becomes the newest
SaveFile(files, name, rec) == Append(RemoveName(files, name), [name |-> name, rec |-> rec])

IdleReq ==
    [pc |-> "idle", audio_file_path |-> NoName, lang |-> "None",
     audio |-> NoAudio, segment_files |-> <<>>, results |-> <<>>,
     tokenizer |-> "None", scaler |-> "None", features |-> "None",
     ret |-> "none",
     \* history of the run, read by the properties only
     decodes |-> 0, reencodes |-> 0, exported |-> {}, seg |-> "none",
     failure |-> "none", absorbed |-> {}, cancelled |-> FALSE]

Init ==
    /\ variant \in Variants
    /\ selected_language_code = "None"
    /\ UPLOAD_STATUS = FALSE
    /\ clock = 1
    /\ served = 0
    /\ uploads = [d \in {ApiUploads, RootUploads} |-> <<>>]
    /\ processed_audio =
           [d \in {ApiProcessed, RootProcessed} |->
               IF d = RootProcessed \/ variant = "backend" THEN EmptyDir ELSE NoDir]
    /\ predictions_csv = NoCsv
    /\ scaler = "fitted"
    /\ req = [r \in Requests |-> IdleReq]
    /\ seg_pc = "off" /\ seg_in = 0 /\ seg_out = NoOutcome
    /\ vote_pc = "off" /\ vote_in = <<>> /\ vote_out = "none"

\* The system at rest, for the specifications that exercise one function.
SysOff ==
    /\ selected_language_code = "None"
    /\ UPLOAD_STATUS = FALSE
    /\ clock = 1
    /\ served = 0
    /\ uploads = [d \in {ApiUploads, RootUploads} |-> <<>>]
    /\ processed_audio = [d \in {ApiProcessed, RootProcessed} |-> NoDir]
    /\ predictions_csv = NoCsv
    /\ scaler = "fitted"
    /\ req = [r \in Requests |-> IdleReq]

\* one more HTTP request is received
Receive == served < MaxServed /\ served' = served + 1

\* POST /selected-language
selected_language(code) ==
    /\ Receive
    /\ selected_language_code' = code
    /\ UPLOAD_STATUS' = IF variant = "backend" THEN FALSE ELSE UPLOAD_STATUS
    /\ UNCHANGED <<variant, scaler, segvars, votevars, clock, fsvars, req>>

\* POST /upload with a file part, received at second `now`
upload_audio(rec, now) ==
    /\ Receive
    \* same second as the last upload, or the next one
    /\ now \in {clock, clock + 1}
    \* only the backend copy reads the time, to name the file; the first
    \* upload is at second 1
    /\ (variant = "server" \/ selected_language_code = "None"
           \/ uploads[UPLOAD_FOLDER] = <<>>) => now = clock
    /\ IF selected_language_code = "None"
       THEN UNCHANGED <<uploads, UPLOAD_STATUS, clock>>
       ELSE LET filename == IF variant = "backend"
                            THEN StampedWav(now) ELSE RecordingWav
            IN  /\ uploads' = [uploads EXCEPT ![UPLOAD_FOLDER] =
                                  SaveFile(@, filename, rec)]
                /\ UPLOAD_STATUS' = TRUE
                /\ clock' = now
    /\ UNCHANGED <<variant, scaler, segvars, votevars, selected_language_code,
                   processed_audio, predictions_csv, req>>

\* POST /test-connection with a file part
test_connection ==
    /\ Receive
    /\ uploads' = [uploads EXCEPT ![UPLOAD_FOLDER] =
                      SaveFile(@, TestConnectionWav, TestRecording)]
    /\ UNCHANGED <<variant, scaler, segvars, votevars, selected_language_code,
                   UPLOAD_STATUS, clock, processed_audio, predictions_csv, req>>

\* POST /cancel.  current_process_pid is never assigned, so no process
\* is signalled; the handler clears PROCESSED_FOLDER.
cancel_process ==
    /\ Receive
    /\ processed_audio' =
           [processed_audio EXCEPT ![PROCESSED_FOLDER] =
               IF ~@.exists THEN @
               ELSE IF variant = "backend" THEN EmptyDir ELSE NoDir]
    /\ UPLOAD_STATUS' = IF variant = "backend" THEN FALSE ELSE UPLOAD_STATUS
    /\ req' = [r \in Requests |->
                  IF req[r].pc = "idle" THEN req[r]
                  ELSE [req[r] EXCEPT !.cancelled = TRUE]]
    /\ UNCHANGED <<variant, scaler, segvars, votevars, selected_language_code, clock,
                   uploads, predictions_csv>>

(***************************************************************************)
(* File names as Python compares them: character by character              *)
(***************************************************************************)
RECURSIVE Digits(_)
Digits(n) == IF n < 10 THEN <<48 + n>> ELSE Digits(n \div 10) \o <<48 + (n % 10)>>

RECURSIVE Repeated(_, _)
Repeated(word, n) == IF n = 0 THEN <<>> ELSE word \o Repeated(word, n - 1)

StemChars(stem) ==
    IF stem = "recording" THEN <<114, 101, 99, 111, 114, 100, 105, 110, 103>>
    ELSE IF stem = "test_connection"
    THEN <<116, 101, 115, 116, 95, 99, 111, 110, 110, 101, 99, 116, 105, 111, 110>>
    ELSE <<>>
ReencodedChars == <<95, 114, 101, 101, 110, 99, 111, 100, 101, 100>>
SegmentChars == <<95, 115, 101, 103, 109, 101, 110, 116>>
WavChars == <<46, 119, 97, 118>>

\* os.path.splitext(os.path.basename(file_path))[0]
BaseChars(name) ==
    StemChars(name.stem)
        \o (IF name.ts > 0 THEN <<95>> \o Digits(name.ts) ELSE <<>>)
        \o Repeated(ReencodedChars, name.re)

\* "<base>.wav" (ord = 0) or "<base>_segment<ord>.wav"
SegmentFileChars(segname) ==
    BaseChars(segname.base)
        \o (IF segname.ord = 0 THEN <<>> ELSE SegmentChars \o Digits(segname.ord))
        \o WavChars

RECURSIVE StrLess(_, _)
StrLess(a, b) ==
    IF b = <<>> THEN FALSE
    ELSE IF a = <<>> THEN TRUE
    ELSE IF Head(a) # Head(b) THEN Head(a) < Head(b)
    ELSE StrLess(Tail(a), Tail(b))

\* sorted(...) of a set of segment file names
RECURSIVE sorted(_)
sorted(names) ==
    IF names = {} THEN <<>>
    ELSE LET first == CHOOSE n \in names :
                         \A m \in names \ {n} :
                             StrLess(SegmentFileChars(n), SegmentFileChars(m))
         IN  <<first>> \o sorted(names \ {first})

(***************************************************************************)
(* GET /get_classification and predict_final_classification                 *)
(***************************************************************************)
ErrorOutcome == "Error: Could not classify audio."

Running(r) == req[r].pc # "idle"
Goto(r, rec) == req' = [req EXCEPT ![r] = rec]
\* an exception reaches "except Exception": the error outcome is returned
Raise(r, kind) ==
    Goto(r, [req[r] EXCEPT !.failure = kind, !.ret = ErrorOutcome, !.pc = "finally"])

\* The handler up to the call of the pipeline.
get_classification(r) ==
    /\ req[r].pc = "idle"
    /\ \A q \in Requests : q < r => Running(q)   \* the first free worker
    /\ Receive
    /\ IF selected_language_code = "None" \/ ~UPLOAD_STATUS
          \/ (variant = "backend" /\ uploads[UPLOAD_FOLDER] = <<>>)
       THEN UNCHANGED <<req, processed_audio>>        \* 400 / 404
       ELSE LET files == uploads[UPLOAD_FOLDER]
                \* backend: newest .wav by mtime; server: uploads/recording.wav
                latest_file == IF variant = "backend"
                               THEN files[Len(files)].name ELSE RecordingWav
            IN  /\ Goto(r, [IdleReq EXCEPT !.pc = "segment",
                               !.audio_file_path = latest_file,
                               !.lang = selected_language_code])
                \* server: os.makedirs(processed_folder, exist_ok=True)
                /\ processed_audio' =
                       [processed_audio EXCEPT ![PROCESSED_DIR] =
                           IF variant = "server" /\ ~@.exists THEN EmptyDir ELSE @]
    /\ UNCHANGED <<variant, scaler, segvars, votevars, selected_language_code,
                   UPLOAD_STATUS, clock, uploads, predictions_csv>>

\* the path check without the wipe: the folder is created only if missing
CleanOutputFolder_keep(r) ==
    /\ req[r].pc = "segment"
    /\ processed_audio' =
           [processed_audio EXCEPT ![PROCESSED_DIR] =
               IF @.exists THEN @ ELSE EmptyDir]
    /\ IF HasFile(UPLOAD_FOLDER, req[r].audio_file_path)
       THEN Goto(r, [req[r] EXCEPT !.pc = "decode"])
       ELSE Goto(r, [req[r] EXCEPT !.pc = "listdir", !.seg = "invalid_path"])
    /\ UNCHANGED <<variant, scaler, segvars, votevars, httpvars, uploads, predictions_csv>>

\* process_single_audio_file up to the first decode: the path check and
\* the wipe of the output folder (the server copy wipes before it checks).
CleanOutputFolder(r) ==
    /\ req[r].pc = "segment"
    /\ LET isfile == HasFile(UPLOAD_FOLDER, req[r].audio_file_path)
           wiped == variant = "server" \/ isfile
       IN  /\ processed_audio' =
                  [processed_audio EXCEPT ![PROCESSED_DIR] =
                      IF wiped THEN EmptyDir ELSE @]
           /\ IF isfile
              THEN Goto(r, [req[r] EXCEPT !.pc = "decode"])
              ELSE Goto(r, [req[r] EXCEPT !.pc = "listdir", !.seg = "invalid_path"])
    /\ UNCHANGED <<variant, scaler, segvars, votevars, httpvars, uploads, predictions_csv>>

\* audio = AudioSegment.from_file(file_path)
Decode(r) ==
    /\ req[r].pc = "decode"
    /\ LET path == req[r].audio_file_path
       IN  IF ~HasFile(UPLOAD_FOLDER, path)
           THEN Raise(r, "FileNotFoundError")
           ELSE IF FileRec(UPLOAD_FOLDER, path).codec = "native"
           THEN Goto(r, [req[r] EXCEPT !.pc = "export", !.decodes = @ + 1,
                            !.audio = FileRec(UPLOAD_FOLDER, path)])
           ELSE Goto(r, [req[r] EXCEPT !.pc = "reencode", !.decodes = @ + 1])
    /\ UNCHANGED <<variant, scaler, segvars, votevars, httpvars, fsvars>>

\* reencoded_path = reencode_audio(file_path)
Reencode(r) ==
    /\ req[r].pc = "reencode"
    /\ req[r].audio_file_path.re < MaxReenc
    /\ LET path == req[r].audio_file_path
           gone == ~HasFile(UPLOAD_FOLDER, path)
           rec == IF gone THEN NoAudio ELSE FileRec(UPLOAD_FOLDER, path)
       IN  IF gone \/ rec.codec = "no_ffmpeg"
           THEN \* CalledProcessError: returns None, the segmenter returns
                /\ Goto(r, [req[r] EXCEPT !.pc = "listdir", !.reencodes = @ + 1,
                               !.seg = "decode_failed"])
                /\ UNCHANGED uploads
           ELSE /\ uploads' = [uploads EXCEPT ![UPLOAD_FOLDER] =
                       SaveFile(@, ReencodedName(path),
                           [rec EXCEPT !.codec =
                               IF @ = "undecodable" THEN @ ELSE "native"])]
                /\ Goto(r, [req[r] EXCEPT !.pc = "decode_again", !.reencodes = @ + 1])
    /\ UNCHANGED <<variant, scaler, segvars, votevars, httpvars, processed_audio,
                   predictions_csv>>

\* audio = AudioSegment.from_file(reencoded_path)
DecodeAgain(r) ==
    /\ req[r].pc = "decode_again"
    /\ LET path == ReencodedName(req[r].audio_file_path)
       IN  IF ~HasFile(UPLOAD_FOLDER, path)
           THEN Raise(r, "FileNotFoundError")
           ELSE IF FileRec(UPLOAD_FOLDER, path).codec = "native"
           THEN Goto(r, [req[r] EXCEPT !.pc = "export", !.decodes = @ + 1,
                            !.audio = FileRec(UPLOAD_FOLDER, path)])
           ELSE Goto(r, [req[r] EXCEPT !.pc = "listdir", !.decodes = @ + 1,
                            !.seg = "decode_failed"])
    /\ UNCHANGED <<variant, scaler, segvars, votevars, httpvars, fsvars>>

\* process_short_audio / process_long_audio: export the segments
Export(r) ==
    /\ req[r].pc = "export"
    /\ LET out == SegmentDecoded(req[r].audio.dur)
           dir == processed_audio[PROCESSED_DIR]
           new == {[name |-> [base |-> req[r].audio_file_path,
                              ord |-> out.files[k].ord],
                    seg |-> out.files[k], src |-> req[r].audio, owner |-> r] :
                      k \in 1..Len(out.files)}
           names == {f.name : f \in new}
       IN  IF out.raised
           THEN Raise(r, "ZeroDivisionError") /\ UNCHANGED processed_audio
           ELSE IF ~dir.exists
           THEN Raise(r, "FileNotFoundError") /\ UNCHANGED processed_audio
           ELSE /\ processed_audio' =
                       [processed_audio EXCEPT ![PROCESSED_DIR].files =
                           {f \in @ : f.name \notin names} \cup new]
                /\ Goto(r, [req[r] EXCEPT !.pc = "listdir", !.seg = "ok",
                               !.exported = names])
    /\ UNCHANGED <<variant, scaler, segvars, votevars, httpvars, uploads, predictions_csv>>

\* segment_files = sorted(... os.listdir(PROCESSED_DIR) ...)
ListSegments(r) ==
    /\ req[r].pc = "listdir"
    /\ LET dir == processed_audio[PROCESSED_DIR]
           segment_files == sorted({f.name : f \in dir.files})
       IN  IF ~dir.exists
           THEN Raise(r, "FileNotFoundError")
           ELSE IF segment_files = <<>>
           THEN Raise(r, "FileNotFoundError: No audio segments found")
           ELSE Goto(r, [req[r] EXCEPT !.pc = "load_language_model",
                            !.segment_files = segment_files])
    /\ UNCHANGED <<variant, scaler, segvars, votevars, httpvars, fsvars>>

\* load_language_model(lang); a failed download leaves tokenizer = None
LoadLanguageModel(r) ==
    /\ req[r].pc = "load_language_model"
    /\ IF req[r].lang \notin language_models
       THEN Raise(r, "ValueError: Unsupported language")
       ELSE \E tokenizer \in {"loaded", "None"} :
               Goto(r, [req[r] EXCEPT !.pc = "loop", !.tokenizer = tokenizer])
    /\ UNCHANGED <<variant, scaler, segvars, votevars, httpvars, fsvars>>

(***************************************************************************)
(* One segment: features, transcription, score, threshold                   *)
(***************************************************************************)
\* positive-class probabilities the classifier may return
Probabilities == {10, 28, 90}

\* extract_all_features: each extractor returns {} on any error, and all of
\* them do when the segment file is gone
AcousticOutcomes(present) ==
    IF present THEN {"all", "some_missing"} ELSE {"none"}

\* transcribe_audio: a text, an empty text, or None on any exception
\* (always None when the file is gone or the tokenizer is None)
TranscriptionOutcomes(present, tokenizer) ==
    IF present /\ tokenizer = "loaded" THEN {"text", "empty", "None"} ELSE {"None"}

\* extract_linguistic_features(transcription, lang): "features", "nan" (the
\* NaN-filled row) or the exception that leaves the function.
\*   backend: transcription.strip() is outside the try; the rest is caught
\*   server:  nlp(transcription) is outside the try; only ValueError is caught
extract_linguistic_features(transcription) ==
    IF transcription = "None"
    THEN {IF variant = "backend" THEN "AttributeError: transcription is None"
                                  ELSE "TypeError: transcription is None"}
    ELSE IF variant = "backend"
    THEN IF transcription = "empty" THEN {"nan"} ELSE {"features", "nan"}
    ELSE {"features", "nan", "Exception in lftk"}

\* the classifier's own label, at its own 0.5 majority
model_predict(probability) == IF 2 * probability > ProbScale THEN 1 ELSE 0

\* predict(model, scaler, combined_features): the pair (predictions,
\* probabilities), or the exception scaler.transform / the classifier raises
predict(acoustic, linguistic) ==
    IF scaler = "unfitted"
    THEN {[raise |-> "NotFittedError", predictions |-> 0, probabilities |-> 0]}
    ELSE IF acoustic # "all"
    THEN {[raise |-> "ValueError: feature names mismatch", predictions |-> 0,
           probabilities |-> 0]}
    ELSE {[raise |-> "", predictions |-> model_predict(p), probabilities |-> p] :
             p \in Probabilities}
         \cup (IF linguistic = "nan"
               THEN {[raise |-> "ValueError: input contains NaN",
                      predictions |-> 0, probabilities |-> 0]}
               ELSE {})

\* predicted_label taken from the classifier's own predictions
predicted_label_of_model(out) == out.predictions

\* predicted_label = 1 if positive_prob >= threshold else 0
predicted_label(out) == IF out.probabilities >= threshold THEN 1 ELSE 0

\* the row appended to results for one scored segment
ScoredRow(segment_path, out) ==
    [file_name |-> segment_path, Prediction |-> predicted_label(out),
     Probability |-> out.probabilities]

\* save_predictions: the three columns written to predictions.csv
save_predictions(all_results_df) ==
    [k \in 1..Len(all_results_df) |->
        [file_name |-> all_results_df[k].file_name,
         Prediction |-> all_results_df[k].Prediction,
         Probability |-> all_results_df[k].Probability]]

\* One pass of the loop body, as the set of its outcomes.
SegmentOutcomes(segment_path, present, tokenizer) ==
    UNION {UNION {
        LET ling == extract_linguistic_features(t)
        IN  {[raise |-> l, nan |-> FALSE, row |-> ScoredRow(segment_path,
                  [raise |-> "", predictions |-> 0, probabilities |-> 0])] :
                l \in ling \ {"features", "nan"}}
            \cup UNION {
                {[raise |-> out.raise, nan |-> (l = "nan"),
                  row |-> ScoredRow(segment_path, out)] : out \in predict(a, l)} :
                l \in ling \cap {"features", "nan"}} :
        t \in TranscriptionOutcomes(present, tokenizer)} :
        a \in AcousticOutcomes(present)}

\* the loop body writing predictions.csv after every segment it scores
ProcessSegment_saving_each_row(r) ==
    /\ req[r].pc = "loop"
    /\ Len(req[r].results) < Len(req[r].segment_files)
    /\ LET segment_path == req[r].segment_files[Len(req[r].results) + 1]
           dir == processed_audio[PROCESSED_DIR]
           present == \E f \in dir.files : f.name = segment_path
       IN  \E o \in SegmentOutcomes(segment_path, present, req[r].tokenizer) :
               IF o.raise # ""
               THEN /\ Raise(r, IF present THEN o.raise ELSE "segment file is gone")
                    /\ UNCHANGED predictions_csv
               ELSE /\ Goto(r, [req[r] EXCEPT
                            !.results = Append(@, o.row),
                            !.absorbed = IF o.nan THEN @ \cup {segment_path} ELSE @])
                    /\ predictions_csv' =
                           [exists |-> TRUE,
                            rows |-> save_predictions(Append(req[r].results, o.row))]
    /\ UNCHANGED <<variant, scaler, segvars, votevars, httpvars, uploads, processed_audio>>

ProcessSegment(r) ==
    /\ req[r].pc = "loop"
    /\ Len(req[r].results) < Len(req[r].segment_files)
    /\ LET segment_path == req[r].segment_files[Len(req[r].results) + 1]
           dir == processed_audio[PROCESSED_DIR]
           present == \E f \in dir.files : f.name = segment_path
       IN  \E o \in SegmentOutcomes(segment_path, present, req[r].tokenizer) :
               IF o.raise # ""
               THEN Raise(r, IF present THEN o.raise ELSE "segment file is gone")
               ELSE Goto(r, [req[r] EXCEPT
                       !.results = Append(@, o.row),
                       !.absorbed = IF o.nan THEN @ \cup {segment_path} ELSE @])
    /\ UNCHANGED <<variant, scaler, segvars, votevars, httpvars, fsvars>>

\* the step after the loop taken without writing predictions.csv
SavePredictions_unwritten(r) ==
    /\ req[r].pc = "loop"
    /\ Len(req[r].results) = Len(req[r].segment_files)
    /\ Goto(r, [req[r] EXCEPT !.pc = "vote"])
    /\ UNCHANGED <<variant, scaler, segvars, votevars, httpvars, fsvars>>

\* all_results_df = pd.concat(results); save_predictions(...)
\* to_csv either writes the whole file or raises (OSError)
SavePredictions(r) ==
    /\ req[r].pc = "loop"
    /\ Len(req[r].results) = Len(req[r].segment_files)
    /\ \E written \in BOOLEAN :
          IF written
          THEN /\ predictions_csv' =
                      [exists |-> TRUE, rows |-> save_predictions(req[r].results)]
               /\ Goto(r, [req[r] EXCEPT !.pc = "vote"])
          ELSE /\ Raise(r, "OSError: predictions.csv")
               /\ UNCHANGED predictions_csv
    /\ UNCHANGED <<variant, scaler, segvars, votevars, httpvars, uploads, processed_audio>>

\* classification_result = weighted_majority_voting(all_results_df)
VoteOnResults(r) ==
    /\ req[r].pc = "vote"
    /\ Goto(r, [req[r] EXCEPT !.pc = "finally",
                   !.ret = ClassificationLabel(weighted_majority_voting(req[r].results))])
    /\ UNCHANGED <<variant, scaler, segvars, votevars, httpvars, fsvars>>

\* delete_directory that leaves the folder in place
delete_directory_skipped(dirs, directory_path) == dirs

\* delete_directory: shutil.rmtree if the path exists
delete_directory(dirs, directory_path) ==
    [dirs EXCEPT ![directory_path] = NoDir]

\* safe_delete_file / os.remove of an existing file
remove_file(ups, folder, name) ==
    [ups EXCEPT ![folder] = RemoveName(@, name)]

\* The finally block.
\*   backend: delete_directory, then safe_delete_file twice, in UPLOAD_DIR
\*   server:  delete_directory, then os.remove twice; os.remove raises
\*            FileNotFoundError on a missing file and that exception
\*            replaces the value being returned
Finalize(r) ==
    /\ req[r].pc = "finally"
    /\ processed_audio' = delete_directory(processed_audio, PROCESSED_DIR)
    /\ LET has_recording == HasFile(UPLOAD_DIR, RecordingWav)
           has_test == HasFile(UPLOAD_DIR, TestConnectionWav)
           both == remove_file(remove_file(uploads, UPLOAD_DIR, RecordingWav),
                               UPLOAD_DIR, TestConnectionWav)
       IN  IF variant = "backend" \/ (has_recording /\ has_test)
           THEN /\ uploads' = both
                /\ Goto(r, [req[r] EXCEPT !.pc = "done"])
           ELSE /\ uploads' = IF has_recording
                              THEN remove_file(uploads, UPLOAD_DIR, RecordingWav)
                              ELSE uploads
                /\ Goto(r, [req[r] EXCEPT !.pc = "done",
                               !.ret = "raised FileNotFoundError"])
    /\ UNCHANGED <<variant, scaler, segvars, votevars, httpvars, predictions_csv>>

\* the handler answering without reset_upload_status()
Respond_keeps_status(r) ==
    /\ req[r].pc = "done"
    /\ Goto(r, IdleReq)
    /\ UNCHANGED <<variant, scaler, segvars, votevars, httpvars, fsvars>>

\* The handler after the call: the backend resets the upload flag; an
\* exception (server copy) is answered with status 500.
Respond(r) ==
    /\ req[r].pc = "done"
    /\ UPLOAD_STATUS' = IF variant = "backend" THEN FALSE ELSE UPLOAD_STATUS
    /\ Goto(r, IdleReq)
    /\ UNCHANGED <<variant, scaler, segvars, votevars, selected_language_code, clock,
                   served, fsvars>>

(***************************************************************************)
(* Spec: one classification in flight at a time, every recording; the      *)
(* other handlers run concurrently with it.                                 *)
(* SpecConc: two classifications in flight (the Flask server is threaded), *)
(* fewer kinds of recording.                                                *)
(***************************************************************************)
ConcRecordings ==
    {[dur |-> 7000, codec |-> "native"], [dur |-> 0, codec |-> "undecodable"]}

Next ==
    \/ \E code \in LanguageCodes : selected_language(code)
    \/ \E rec \in Recordings, now \in 1..MaxClock : upload_audio(rec, now)
    \/ test_connection
    \/ cancel_process
    \/ get_classification(1)
    \/ CleanOutputFolder(1)
    \/ Decode(1)
    \/ Reencode(1)
    \/ DecodeAgain(1)
    \/ Export(1)
    \/ ListSegments(1)
    \/ LoadLanguageModel(1)
    \/ ProcessSegment(1)
    \/ SavePredictions(1)
    \/ VoteOnResults(1)
    \/ Finalize(1)
    \/ Respond(1)

Spec == Init /\ [][Next]_vars

NextConc ==
    \/ \E code \in LanguageCodes : selected_language(code)
    \/ \E rec \in ConcRecordings, now \in 1..MaxClock : upload_audio(rec, now)
    \/ test_connection
    \/ cancel_process
    \/ \E r \in Requests : get_classification(r)
    \/ \E r \in Requests : CleanOutputFolder(r)
    \/ \E r \in Requests : Decode(r)
    \/ \E r \in Requests : Reencode(r)
    \/ \E r \in Requests : DecodeAgain(r)
    \/ \E r \in Requests : Export(r)
    \/ \E r \in Requests : ListSegments(r)
    \/ \E r \in Requests : LoadLanguageModel(r)
    \/ \E r \in Requests : ProcessSegment(r)
    \/ \E r \in Requests : SavePredictions(r)
    \/ \E r \in Requests : VoteOnResults(r)
    \/ \E r \in Requests : Finalize(r)
    \/ \E r \in Requests : Respond(r)

SpecConc == Init /\ [][NextConc]_vars

(***************************************************************************)
(* SpecSeg: the segmenter applied to every decoded clip length              *)
(***************************************************************************)
InitSeg ==
    /\ variant \in Variants
    /\ seg_pc = "decoded"
    /\ seg_in \in 0..MaxDurationMs
    /\ seg_out = NoOutcome
    /\ vote_pc = "off" /\ vote_in = <<>> /\ vote_out = "none"
    /\ SysOff

SegmentClip ==
    /\ seg_pc = "decoded"
    /\ seg_out' = SegmentDecoded(seg_in)
    /\ seg_pc' = "segmented"
    /\ UNCHANGED <<variant, scaler, seg_in, votevars, sysvars>>

NextSeg == SegmentClip
SpecSeg == InitSeg /\ [][NextSeg]_vars

(***************************************************************************)
(* SpecVote: the voting rule applied to every small table                   *)
(***************************************************************************)
VoteProbabilities == {0, 27, 28, 40, 50, 60, 90, 100}
VoteRows == [Prediction : {0, 1}, Probability : VoteProbabilities]
VoteTables == UNION {[1..n -> VoteRows] : n \in 0..MaxRows}

InitVote ==
    /\ variant \in Variants
    /\ vote_pc = "table"
    /\ vote_in \in VoteTables
    /\ vote_out = "none"
    /\ seg_pc = "off" /\ seg_in = 0 /\ seg_out = NoOutcome
    /\ SysOff

Vote ==
    /\ vote_pc = "table"
    /\ vote_out' = ClassificationLabel(weighted_majority_voting(vote_in))
    /\ vote_pc' = "voted"
    /\ UNCHANGED <<variant, scaler, vote_in, segvars, sysvars>>

NextVote == Vote
SpecVote == InitVote /\ [][NextVote]_vars

(***************************************************************************)
(* SpecTwice: process_single_audio_file called twice on the same recording *)
(* with the same output folder.  seg_pc counts the calls and seg_out keeps *)
(* the folder as the first call left it.                                    *)
(***************************************************************************)
TwiceRecordings ==
    Recordings \cup [dur : {19999, 20000, 40000, 45000}, codec : {"native", "odd"}]

\* a segment left in the folder by some earlier run
StaleSegment ==
    [name |-> [base |-> TestConnectionWav, ord |-> 0],
     seg |-> LoopAndTruncate(0, 0, 7000, twenty_sec_ms),
     src |-> TestRecording, owner |-> 2]

\* the call process_single_audio_file(audio_file_path, PROCESSED_DIR)
Segmenting(name) ==
    [IdleReq EXCEPT !.pc = "segment", !.audio_file_path = name, !.lang = "en"]

InitTwice ==
    /\ variant \in Variants
    /\ selected_language_code = "en"
    /\ UPLOAD_STATUS = TRUE
    /\ clock = 1
    /\ served = 0
    /\ \E rec \in TwiceRecordings :
          uploads = [d \in {ApiUploads, RootUploads} |->
                        IF d = UPLOAD_FOLDER
                        THEN <<[name |-> IF variant = "backend"
                                         THEN StampedWav(1) ELSE RecordingWav,
                                rec |-> rec]>>
                        ELSE <<>>]
    /\ \E dir \in {NoDir, EmptyDir, [exists |-> TRUE, files |-> {StaleSegment}]} :
          processed_audio = [d \in {ApiProcessed, RootProcessed} |->
                                IF d = RootProcessed THEN dir ELSE NoDir]
    /\ predictions_csv = NoCsv
    /\ scaler = "fitted"
    /\ req = [r \in Requests |->
                 IF r = 1
                 THEN Segmenting(IF variant = "backend"
                                 THEN StampedWav(1) ELSE RecordingWav)
                 ELSE IdleReq]
    /\ seg_pc = "run1" /\ seg_in = 0 /\ seg_out = NoDir
    /\ vote_pc = "off" /\ vote_in = <<>> /\ vote_out = "none"

\* the first call has returned or raised: call again
SegmentAgain ==
    /\ seg_pc = "run1"
    /\ req[1].pc \in {"listdir", "finally"}
    /\ seg_pc' = "run2"
    /\ seg_out' = processed_audio[PROCESSED_DIR]
    /\ Goto(1, Segmenting(req[1].audio_file_path))
    /\ UNCHANGED <<variant, scaler, seg_in, votevars, httpvars, fsvars>>

NextTwice ==
    \/ CleanOutputFolder(1)
    \/ Decode(1)
    \/ Reencode(1)
    \/ DecodeAgain(1)
    \/ Export(1)
    \/ SegmentAgain

SpecTwice == InitTwice /\ [][NextTwice]_vars

(***************************************************************************)
(* SpecLong: predict_final_classification on one long recording, from the  *)
(* call of process_single_audio_file to save_predictions, with an empty    *)
(* output folder.  The answers of the classifier are drawn from a smaller  *)
(* set than in Spec: the recordings have up to ten segments.               *)
(***************************************************************************)
LongRecordings == [dur : {40000, 180000, 200000}, codec : {"native", "odd"}]

InitLong ==
    /\ variant \in Variants
    /\ selected_language_code = "en"
    /\ UPLOAD_STATUS = TRUE
    /\ clock = 1
    /\ served = 0
    /\ \E rec \in LongRecordings :
          uploads = [d \in {ApiUploads, RootUploads} |->
                        IF d = UPLOAD_FOLDER
                        THEN <<[name |-> IF variant = "backend"
                                         THEN StampedWav(1) ELSE RecordingWav,
                                rec |-> rec]>>
                        ELSE <<>>]
    /\ processed_audio = [d \in {ApiProcessed, RootProcessed} |->
                             IF d = RootProcessed THEN EmptyDir ELSE NoDir]
    /\ predictions_csv = NoCsv
    /\ scaler = "fitted"
    /\ req = [r \in Requests |->
                 IF r = 1
                 THEN Segmenting(IF variant = "backend"
                                 THEN StampedWav(1) ELSE RecordingWav)
                 ELSE IdleReq]
    /\ seg_pc = "long" /\ seg_in = 0 /\ seg_out = NoDir
    /\ vote_pc = "off" /\ vote_in = <<>> /\ vote_out = "none"

\* the loop body with the classifier's answers drawn from two values and
\* no NaN among the features
ScoreLongSegment ==
    /\ ProcessSegment(1)
    /\ req'[1].absorbed = {}
    /\ \A k \in 1..Len(req'[1].results) :
           req'[1].results[k].Probability \in {10, 90}

NextLong ==
    \/ CleanOutputFolder(1)
    \/ Decode(1)
    \/ Reencode(1)
    \/ DecodeAgain(1)
    \/ Export(1)
    \/ ListSegments(1)
    \/ LoadLanguageModel(1)
    \/ ScoreLongSegment
    \/ SavePredictions(1)

SpecLong == InitLong /\ [][NextLong]_vars

(***************************************************************************)
(* SpecApi: the two scorers of the backend copy with the stored scaler     *)
(* fitted or never fit.  Worker 1 runs predict_final_classification of     *)
(* backend/api/prediction.py on one recording; worker 2 is the pipeline at *)
(* the head of its segment loop, with one segment to score.                *)
(***************************************************************************)
ApiErrorOutcome == "Error: Prediction failed."

\* label = "Alzheimer's Detected" if prediction == 1 else "Healthy Control"
ApiLabel(prediction) ==
    IF prediction = 1 THEN "Alzheimer's Detected" ELSE "Healthy Control"

\* int(np.round(probabilities.mean())) for the one row: half rounds to even
rounded_mean(probability) == IF 2 * probability > ProbScale THEN 1 ELSE 0

\* DataFrame.median() of one column: the middle of the values that are not
\* NaN, and NaN when there is none
column_median(column) ==
    LET values == SelectSeq(column, LAMBDA v : v # "nan")
    IN  IF values = <<>> THEN "nan" ELSE values[(Len(values) + 1) \div 2]

\* combined_df.fillna(combined_df.median()) on the one-row table
fillna_median(row) ==
    [c \in DOMAIN row |->
        IF row[c] = "nan" THEN column_median(<<row[c]>>) ELSE row[c]]

\* an exception reaches "except Exception" of backend/api/prediction.py
ApiRaise(r, kind) ==
    Goto(r, [req[r] EXCEPT !.failure = kind, !.ret = ApiErrorOutcome, !.pc = "done"])

\* load_model_and_scaler(): joblib.load of both files, or FileNotFoundError
api_load_model_and_scaler(r) ==
    /\ req[r].pc = "api_load"
    /\ \E found \in BOOLEAN :
          IF found
          THEN Goto(r, [req[r] EXCEPT !.pc = "api_features", !.scaler = scaler])
          ELSE ApiRaise(r, "FileNotFoundError")
    /\ UNCHANGED <<variant, scaler, segvars, votevars, httpvars, fsvars>>

\* prepare_features(audio_path, language_code): the audio path is what the
\* linguistic extractor is given as its text
prepare_features(r) ==
    /\ req[r].pc = "api_features"
    /\ \E a \in AcousticOutcomes(HasFile(ApiUploads, req[r].audio_file_path)),
          l \in extract_linguistic_features("text") :
          Goto(r, [req[r] EXCEPT
                  !.pc = "api_scale",
                  !.features = fillna_median([acoustic |-> a, linguistic |-> l])])
    /\ UNCHANGED <<variant, scaler, segvars, votevars, httpvars, fsvars>>

\* scaler.transform(combined_features); on NotFittedError the scaler is
\* fitted on the row itself with fit_transform
api_scale(r) ==
    /\ req[r].pc = "api_scale"
    /\ IF req[r].scaler = "unfitted"
       THEN Goto(r, [req[r] EXCEPT !.pc = "api_predict",
                                   !.scaler = "fitted_on_inference_data"])
       ELSE IF req[r].features.acoustic # "all"
       THEN ApiRaise(r, "ValueError: feature names mismatch")
       ELSE Goto(r, [req[r] EXCEPT !.pc = "api_predict"])
    /\ UNCHANGED <<variant, scaler, segvars, votevars, httpvars, fsvars>>

\* model.predict_proba(scaled_features), the mean, the rounding, the label;
\* the classifier raises ValueError on a row of another width and may
\* raise on any row (NaN input, the columns it was trained on)
api_predict(r) ==
    /\ req[r].pc = "api_predict"
    /\ IF req[r].features.acoustic # "all"
       THEN ApiRaise(r, "ValueError: number of features")
       ELSE \/ ApiRaise(r, "ValueError: predict_proba")
            \/ \E p \in Probabilities :
                  Goto(r, [req[r] EXCEPT !.pc = "done",
                                         !.ret = ApiLabel(rounded_mean(p))])
    /\ UNCHANGED <<variant, scaler, segvars, votevars, httpvars, fsvars>>

\* the segment worker 2 is about to score
ApiSegment ==
    [name |-> [base |-> StampedWav(1), ord |-> 0],
     seg |-> LoopAndTruncate(0, 0, 7000, twenty_sec_ms),
     src |-> [dur |-> 7000, codec |-> "native"], owner |-> 2]

InitApi ==
    /\ variant = "backend"
    /\ scaler \in {"fitted", "unfitted"}
    /\ selected_language_code \in LanguageCodes
    /\ UPLOAD_STATUS = TRUE
    /\ clock = 1
    /\ served = 0
    /\ \E stored \in BOOLEAN :
          uploads = [d \in {ApiUploads, RootUploads} |->
                        IF d = ApiUploads /\ stored
                        THEN <<[name |-> RecordingWav,
                                rec |-> [dur |-> 7000, codec |-> "native"]]>>
                        ELSE <<>>]
    /\ processed_audio = [d \in {ApiProcessed, RootProcessed} |->
                             IF d = RootProcessed
                             THEN [exists |-> TRUE, files |-> {ApiSegment}]
                             ELSE EmptyDir]
    /\ predictions_csv = NoCsv
    /\ req = [r \in Requests |->
                 IF r = 1
                 THEN [IdleReq EXCEPT !.pc = "api_load",
                                      !.audio_file_path = RecordingWav,
                                      !.lang = selected_language_code]
                 ELSE [IdleReq EXCEPT !.pc = "loop",
                                      !.audio_file_path = StampedWav(1),
                                      !.lang = "en",
                                      !.audio = [dur |-> 7000, codec |-> "native"],
                                      !.segment_files = <<ApiSegment.name>>,
                                      !.exported = {ApiSegment.name},
                                      !.tokenizer = "loaded"]]
    /\ seg_pc = "off" /\ seg_in = 0 /\ seg_out = NoOutcome
    /\ vote_pc = "off" /\ vote_in = <<>> /\ vote_out = "none"

NextApi ==
    \/ api_load_model_and_scaler(1)
    \/ prepare_features(1)
    \/ api_scale(1)
    \/ api_predict(1)
    \/ ProcessSegment(2)

SpecApi == InitApi /\ [][NextApi]_vars

(***************************************************************************)
(* SpecFloat: weighted_majority_voting in the arithmetic pandas uses.      *)
(* Probability is a float64 column; .sum() adds the selected rows from the *)
(* first to the last, each addition rounded to the nearest binary64 value, *)
(* ties to even.  A value here is a binary64 number in [0, 4) that is a    *)
(* multiple of 2^-56, held as two limbs: it stands for                     *)
(* (hi * 2^28 + lo) * 2^-56.                                               *)
(***************************************************************************)
Limb == 2^28

\* the distance between neighbouring binary64 values at v, in units of 2^-56
ulp(v) ==
    IF v.hi < 2^25 THEN 1            \* below 1/8
    ELSE IF v.hi < 2^26 THEN 2       \* [1/8, 1/4)
    ELSE IF v.hi < 2^27 THEN 4       \* [1/4, 1/2)
    ELSE IF v.hi < 2^28 THEN 8       \* [1/2, 1)
    ELSE IF v.hi < 2^29 THEN 16      \* [1, 2)
    ELSE 32                          \* [2, 4)

\* an exact value rounded to binary64: to nearest, ties to the even mantissa
round_binary64(v) ==
    LET q == ulp(v)
        r == v.lo % q
        down == v.lo - r
        up == (2 * r > q) \/ (2 * r = q /\ (down \div q) % 2 = 1)
        lo == IF up THEN down + q ELSE down
    IN  IF lo = Limb THEN [hi |-> v.hi + 1, lo |-> 0] ELSE [hi |-> v.hi, lo |-> lo]

\* x + y in binary64
float_add(x, y) ==
    LET lo == x.lo + y.lo
    IN  round_binary64([hi |-> x.hi + y.hi + (lo \div Limb), lo |-> lo % Limb])

\* 1 - p in binary64, for 0 <= p <= 1
one_minus(p) ==
    round_binary64([hi |-> Limb - p.hi - (IF p.lo > 0 THEN 1 ELSE 0),
                    lo |-> (Limb - p.lo) % Limb])

float_gt(x, y) == x.hi > y.hi \/ (x.hi = y.hi /\ x.lo > y.lo)

\* k * 2^e \div 25 and k * 2^e % 25, the quotient in limbs, by long
\* division: one binary digit when e is odd, two at a time otherwise
RECURSIVE ScaledBy25(_, _)
ScaledBy25(k, e) ==
    IF e = 0
    THEN [hi |-> 0, lo |-> k \div 25, rem |-> k % 25]
    ELSE LET step == IF e % 2 = 1 THEN 1 ELSE 2
             part == ScaledBy25(k, e - step)
             digit == (2^step * part.rem) \div 25
             lo == 2^step * part.lo + digit
         IN  [hi |-> 2^step * part.hi + (lo \div Limb), lo |-> lo % Limb,
              rem |-> 2^step * part.rem - 25 * digit]

\* the binary64 value nearest to k / 100, for k = 0 or 7 <= k <= 100:
\* a mantissa of 53 bits, k * 2^e / 25 rounded, times the ulp q
float_of(k) ==
    LET q == IF 2 * k < 25 THEN 1 ELSE IF k < 25 THEN 2
             ELSE IF k < 50 THEN 4 ELSE IF k < 100 THEN 8 ELSE 16
        e == IF q = 1 THEN 54 ELSE IF q = 2 THEN 53
             ELSE IF q = 4 THEN 52 ELSE IF q = 8 THEN 51 ELSE 50
        m == ScaledBy25(k, e)
        up == IF 2 * m.rem > 25 THEN 1 ELSE 0
        lo == (m.lo + up) * q
    IN  [hi |-> m.hi * q + (lo \div Limb), lo |-> lo % Limb]

\* Series.sum(): the rows added in their order, starting from 0
RECURSIVE float_sum(_)
float_sum(s) ==
    IF s = <<>> THEN [hi |-> 0, lo |-> 0]
    ELSE float_add(float_sum(SubSeq(s, 1, Len(s) - 1)), s[Len(s)])

\* weighted_majority_voting(df) on a float64 Probability column
weighted_majority_voting_binary64(df) ==
    LET positive == SelectSeq(df, LAMBDA row : row.Prediction = 1)
        negative == SelectSeq(df, LAMBDA row : row.Prediction = 0)
        weighted_sum_1_binary64 ==
            float_sum([i \in 1..Len(positive) |-> positive[i].Probability])
        weighted_sum_0_binary64 ==
            float_sum([i \in 1..Len(negative) |-> one_minus(negative[i].Probability)])
    IN  IF float_gt(weighted_sum_1_binary64, weighted_sum_0_binary64) THEN 1 ELSE 0

MaxFloatRows == 4
FloatProbabilities == {float_of(k) : k \in {10, 28, 29, 33, 90}}
FloatRows == [Prediction : {0, 1}, Probability : FloatProbabilities]
FloatTables == UNION {[1..n -> FloatRows] : n \in 0..MaxFloatRows}

InitFloat ==
    /\ variant \in Variants
    /\ vote_pc = "float_table"
    /\ vote_in \in FloatTables
    /\ vote_out = "none"
    /\ seg_pc = "off" /\ seg_in = 0 /\ seg_out = NoOutcome
    /\ SysOff

VoteFloat ==
    /\ vote_pc = "float_table"
    /\ vote_out' = ClassificationLabel(weighted_majority_voting_binary64(vote_in))
    /\ vote_pc' = "float_voted"
    /\ UNCHANGED <<variant, scaler, vote_in, segvars, sysvars>>

NextFloat == VoteFloat
SpecFloat == InitFloat /\ [][NextFloat]_vars

(***************************************************************************)
(* Properties                                                               *)
(***************************************************************************)
\* the number of segment files the specification gives for a clip of d ms
SegmentsFor(d) ==
    IF d < 20000 THEN 1
    ELSE (d \div 20000) + (IF d % 20000 # 0 THEN 1 ELSE 0)

\* C1: segmenting a decoded clip of d ms writes exactly one segment file
\* when d is under 20 s, and otherwise floor(d / 20 s) files plus one more
\* when d is not a whole multiple of 20 s.
C1_SegmentCount ==
    seg_pc = "segmented" => Len(seg_out.files) = SegmentsFor(seg_in)

\* C1 restricted to clips that hold at least one millisecond of audio
C1_SegmentCountNonEmpty ==
    (seg_pc = "segmented" /\ seg_in > 0)
        => (~seg_out.raised /\ Len(seg_out.files) = SegmentsFor(seg_in))

\* C2: every segment file the segmenter writes is exactly 20 000 ms long,
\* whatever the length of the clip, and the looped audio of a short clip
\* or of a remainder is at least 20 000 ms long before it is truncated.
C2_SegmentLength ==
    seg_pc = "segmented" =>
        \A k \in 1..Len(seg_out.files) :
            /\ seg_out.files[k].len = 20000
            /\ seg_out.files[k].looped >= 20000
            /\ seg_out.files[k].piece > 0
            /\ seg_out.files[k].start + seg_out.files[k].piece <= seg_in

\* a 47 s clip: two full segments and a 7 s remainder looped to 21 s
C2_Witness ==
    /\ seg_pc = "segmented"
    /\ seg_in = 47000
    /\ Len(seg_out.files) = 3
    /\ seg_out.files[3].piece = 7000
    /\ seg_out.files[3].looped = 21000
    /\ seg_out.files[3].len = 20000

\* the two weighted sums of the claim, computed row by row
RECURSIVE PositiveWeight(_)
PositiveWeight(t) ==
    IF t = <<>> THEN 0
    ELSE (IF Head(t).Prediction = 1 THEN Head(t).Probability ELSE 0)
             + PositiveWeight(Tail(t))
RECURSIVE NegativeWeight(_)
NegativeWeight(t) ==
    IF t = <<>> THEN 0
    ELSE (IF Head(t).Prediction = 0 THEN 100 - Head(t).Probability ELSE 0)
             + NegativeWeight(Tail(t))

LabelAt28(row) == IF row.Probability >= 28 THEN 1 ELSE 0

\* C4: the label of every scored segment is 1 exactly when its positive
\* probability is at least 0.28; that label is the one kept in the
\* request's results and written to predictions.csv, never the label of
\* the classifier's own predict().
C4_ThresholdDecides ==
    /\ \A r \in Requests : \A k \in 1..Len(req[r].results) :
           req[r].results[k].Prediction = LabelAt28(req[r].results[k])
    /\ \A k \in 1..Len(predictions_csv.rows) :
           predictions_csv.rows[k].Prediction = LabelAt28(predictions_csv.rows[k])

\* a segment scored at exactly 0.28 is written to predictions.csv as positive
C4_Witness ==
    /\ predictions_csv.exists
    /\ \E k \in 1..Len(predictions_csv.rows) :
           /\ predictions_csv.rows[k].Probability = 28
           /\ predictions_csv.rows[k].Prediction = 1

\* C5: a request in which any stage raised returns the error outcome
\* 'Error: Could not classify audio.', never 'AD', 'HC' or 'Unknown'.
C5_FailureGivesErrorOutcome ==
    \A r \in Requests :
        (req[r].pc = "done" /\ req[r].failure # "none")
            => req[r].ret = "Error: Could not classify audio."

SegmentLocalFaults ==
    {"AttributeError: transcription is None",
     "TypeError: transcription is None",
     "ValueError: feature names mismatch"}

\* C9: when transcription or feature extraction fails for one segment
\* after another segment of the request was scored, the request is not
\* aborted: it still returns 'AD' or 'HC'.
C9_SegmentFaultAbsorbed ==
    \A r \in Requests :
        (/\ req[r].pc = "done"
         /\ req[r].failure \in SegmentLocalFaults
         /\ Len(req[r].results) >= 1)
            => req[r].ret \in {"AD", "HC"}

\* C7: when the native decode fails the segmenter re-encodes once and
\* decodes once more; when the re-encoding or the second decode fails the
\* segmentation fails as a whole: no segment is written, nothing is tried
\* again, and the caller, told of the decode error, scores no segment and
\* returns no label.
C7_DecodeFailureIsFatal ==
    \A r \in Requests :
        req[r].seg = "decode_failed" =>
            /\ req[r].reencodes = 1
            /\ req[r].decodes \in {1, 2}
            /\ req[r].exported = {}
            /\ req[r].results = <<>>
            /\ req[r].ret \notin {"AD", "HC"}

\* C8: a request whose segmentation wrote no segment file (invalid path,
\* decode failure, empty output) gets the error outcome before any segment
\* is scored, and the vote is never taken over an empty table.
C8_NoSegmentsIsAnError ==
    \A r \in Requests :
        /\ (req[r].pc \in {"load_language_model", "loop", "vote"}
               => req[r].exported # {})
        /\ (req[r].pc = "vote" => req[r].results # <<>>)

\* the segment files request q wrote, still in the folder and not yet scored
Unscored(q) ==
    IF req[q].pc \notin {"listdir", "load_language_model", "loop"} THEN {}
    ELSE {f \in processed_audio[PROCESSED_DIR].files :
             /\ f.owner = q
             /\ f.name \in req[q].exported
             /\ \A k \in 1..Len(req[q].results) :
                    req[q].results[k].file_name # f.name}

\* C10: with two classification requests in flight, no step of one
\* request removes (or overwrites) a segment file the other request wrote
\* and has not yet scored.
C10_ExclusiveWorkingDirectory ==
    [][\A r, q \in Requests :
           (r # q /\ req'[r].pc # req[r].pc)
               => Unscored(q) \subseteq processed_audio'[PROCESSED_DIR].files]_vars

\* C11: once /cancel has been handled while a classification is running,
\* that classification scores no further segment and no 'AD'/'HC' label
\* is produced for it afterwards.
C11_CancelStopsScoring ==
    [][\A r \in Requests :
           (req[r].cancelled /\ req'[r].pc # "idle")
               => /\ req'[r].results = req[r].results
                  /\ (req'[r].ret \in {"AD", "HC"} => req'[r].ret = req[r].ret)]_vars

\* C12: a request that returns a label has exactly one audit row per
\* segment its segmenter produced, and each row's file_name is the name of
\* that segment: <base>.wav for a short clip, <base>_segment<i>.wav for
\* the i-th segment of a long one, <base> being the recording's base name.
C12_AuditRowPerSegment ==
    \A r \in Requests :
        (req[r].pc \in {"finally", "done"} /\ req[r].ret \in {"AD", "HC"}) =>
            /\ Len(req[r].results) = SegmentsFor(req[r].audio.dur)
            /\ {req[r].results[k].file_name : k \in 1..Len(req[r].results)}
                   = req[r].exported
            /\ \A k \in 1..Len(req[r].results) :
                   /\ req[r].results[k].file_name.base = req[r].audio_file_path
                   /\ req[r].results[k].file_name.ord =
                          (IF req[r].audio.dur < 20000 THEN 0 ELSE k)

\* process_single_audio_file has returned or raised
Segmented(r) == req[r].pc \in {"listdir", "finally"}

\* C13: segmenting the same recording a second time into the same folder
\* leaves the folder exactly as the first run left it (same file names,
\* same contents), and after either run the folder holds no file other
\* than the segments that run wrote.
C13_SegmentingTwice ==
    /\ Segmented(1) =>
           \A f \in processed_audio[PROCESSED_DIR].files :
               f.name \in req[1].exported
    /\ (seg_pc = "run2" /\ Segmented(1)) =>
           processed_audio[PROCESSED_DIR] = seg_out

\* a 45 s recording segmented twice into a folder that held a stale file:
\* three segments after the second run, as after the first
C13_Witness ==
    /\ seg_pc = "run2"
    /\ Segmented(1)
    /\ req[1].audio.dur = 45000
    /\ Cardinality(seg_out.files) = 3
    /\ processed_audio[PROCESSED_DIR] = seg_out
    /\ StaleSegment \notin seg_out.files

\* C14: every decoded clip shorter than 20 s, a clip of 0 ms included,
\* yields exactly one segment of 20 000 ms, and process_short_audio does
\* not raise.
C14_ShortClipOneSegment ==
    (seg_pc = "segmented" /\ seg_in < 20000) =>
        /\ ~seg_out.raised
        /\ Len(seg_out.files) = 1
        /\ seg_out.files[1].len = 20000

\* C14 for clips of at least 1 ms
C14_ShortClipFromOneMs ==
    (seg_pc = "segmented" /\ seg_in \in 1..19999) =>
        /\ ~seg_out.raised
        /\ Len(seg_out.files) = 1
        /\ seg_out.files[1].len = 20000

\* a table as the pipeline builds it: every row labelled by the 0.28 threshold
PipelineTable(t) ==
    \A k \in 1..Len(t) :
        t[k].Prediction = predicted_label([probabilities |-> t[k].Probability])
RowsLabelled(t, label) == Cardinality({k \in 1..Len(t) : t[k].Prediction = label})

\* C15 (as stated): among the tables the pipeline can build there is one
\* with exactly one positive row and at least two negative rows whose vote
\* is AD.  The tables are all those of at most MaxRows rows, looked at once
\* a vote has been taken.
C15_OnePositiveCanOutweigh ==
    vote_pc = "voted" =>
        \E t \in VoteTables :
            /\ PipelineTable(t)
            /\ RowsLabelled(t, 1) = 1
            /\ RowsLabelled(t, 0) >= 2
            /\ ClassificationLabel(weighted_majority_voting(t)) = "AD"

\* C15 (amended): for a table labelled by the 0.28 threshold, one positive
\* row never outweighs two or more negative rows: the vote is HC.
C15_OnePositiveNeverOutweighsTwo ==
    (/\ vote_pc = "voted"
     /\ PipelineTable(vote_in)
     /\ RowsLabelled(vote_in, 1) = 1
     /\ RowsLabelled(vote_in, 0) >= 2) => vote_out = "HC"

C15_Witness ==
    /\ vote_pc = "voted"
    /\ vote_in = <<[Prediction |-> 1, Probability |-> 100],
                   [Prediction |-> 0, Probability |-> 27],
                   [Prediction |-> 0, Probability |-> 27]>>
    /\ vote_out = "HC"

\* C16: when the finally block of a classification has run, whatever the
\* outcome, the recording it consumed (a file stored by /upload) is no
\* longer in the upload folder.
C16_ConsumedUploadRemoved ==
    [][\A r \in Requests :
           (/\ req[r].pc = "finally" /\ req'[r].pc = "done"
            /\ req[r].audio_file_path # TestConnectionWav)
               => \A i \in 1..Len(uploads'[UPLOAD_FOLDER]) :
                      uploads'[UPLOAD_FOLDER][i].name # req[r].audio_file_path]_vars

\* C16 for the copy under src/server alone
C16_ConsumedUploadRemovedServer ==
    [][\A r \in Requests :
           (/\ variant = "server"
            /\ req[r].pc = "finally" /\ req'[r].pc = "done"
            /\ req[r].audio_file_path # TestConnectionWav)
               => \A i \in 1..Len(uploads'[UPLOAD_FOLDER]) :
                      uploads'[UPLOAD_FOLDER][i].name # req[r].audio_file_path]_vars

\* C17: no NaN reaches the scorer: no segment is scored from a feature
\* row that still holds NaN, and the scorer never fails on a NaN input.
C17_NoNaNReachesScorer ==
    \A r \in Requests :
        /\ req[r].absorbed = {}
        /\ req[r].failure # "ValueError: input contains NaN"

\* C18: when the stored scaler was never fit, scoring ends with an error
\* outcome: the scaler is never fitted on the data being scored and no
\* label is returned.
C18_UnfittedScalerFails ==
    scaler = "unfitted" =>
        \A r \in Requests :
            /\ req[r].scaler # "fitted_on_inference_data"
            /\ req[r].results = <<>>
            /\ req[r].pc = "done" => req[r].ret = ApiErrorOutcome
            /\ req[r].pc = "finally" => req[r].ret = ErrorOutcome

\* C18 for the pipeline's scorer alone (worker 2)
C18_UnfittedScalerFailsInPipeline ==
    scaler = "unfitted" =>
        /\ req[2].results = <<>>
        /\ req[2].pc = "finally" => req[2].ret = ErrorOutcome

\* C19: a classification whose language code is outside language_models
\* scores no segment, writes no audit row, returns no AD/HC label, and
\* ends, after the finally block, with the error outcome.
C19_UnsupportedLanguageFails ==
    [][\A r \in Requests :
           (req'[r].pc # "idle" /\ req'[r].lang \notin language_models) =>
               /\ req'[r].results = <<>>
               /\ req'[r].ret \notin {"AD", "HC"}
               /\ req[r].pc # "idle" => predictions_csv' = predictions_csv
               /\ req'[r].pc = "done" =>
                      /\ req[r].pc \in {"finally", "done"}
                      /\ req'[r].ret = ErrorOutcome]_vars

\* C19 for the copy under src/backend alone
C19_UnsupportedLanguageFailsBackend ==
    [][\A r \in Requests :
           (/\ variant = "backend"
            /\ req'[r].pc # "idle" /\ req'[r].lang \notin language_models) =>
               /\ req'[r].results = <<>>
               /\ req'[r].ret \notin {"AD", "HC"}
               /\ req[r].pc # "idle" => predictions_csv' = predictions_csv
               /\ req'[r].pc = "done" =>
                      /\ req[r].pc \in {"finally", "done"}
                      /\ req'[r].ret = ErrorOutcome]_vars

\* C20: the audit file is append-only: the rows a request has written are
\* still in predictions.csv, unchanged, whatever a later request writes.
C20_AuditAppendOnly ==
    [][predictions_csv.exists =>
          /\ predictions_csv'.exists
          /\ Len(predictions_csv'.rows) >= Len(predictions_csv.rows)
          /\ \A k \in 1..Len(predictions_csv.rows) :
                 predictions_csv'.rows[k] = predictions_csv.rows[k]]_vars

\* a step of /cancel taken while request r is running
CancelledNow(r) == req[r].pc # "idle" /\ ~req[r].cancelled /\ req'[r].cancelled

\* C21: /cancel empties the folder the pipeline keeps its segments in and
\* leaves predictions.csv and the upload folders as they were.
C21_CancelPurgesWorkingDirectory ==
    [][(\E r \in Requests : CancelledNow(r)) =>
          /\ processed_audio'[PROCESSED_DIR].files = {}
          /\ predictions_csv' = predictions_csv
          /\ uploads' = uploads]_vars

\* C21 for the copy under src/server alone
C21_CancelPurgesWorkingDirectoryServer ==
    [][(variant = "server" /\ \E r \in Requests : CancelledNow(r)) =>
          /\ processed_audio'[PROCESSED_DIR].files = {}
          /\ predictions_csv' = predictions_csv
          /\ uploads' = uploads]_vars

\* the frame part of C21 alone, in both copies
C21_CancelKeepsAuditAndUploads ==
    [][(\E r \in Requests : CancelledNow(r)) =>
          /\ predictions_csv' = predictions_csv
          /\ uploads' = uploads]_vars

\* C22: for a clip of d >= 20 s, segment k of the floor(d / 20 s) full
\* segments is the clip's audio from (k-1)*20 s to k*20 s, and the last
\* segment, when d is not a multiple of 20 s, is the last d mod 20 s of the
\* clip repeated and cut to 20 s: its audio at offset t is the clip's audio
\* at floor(d / 20 s)*20 s + (t mod (d mod 20 s)).
C22_SegmentContent ==
    (seg_pc = "segmented" /\ seg_in >= 20000) =>
        LET full == seg_in \div 20000
            rest == seg_in % 20000
        IN  /\ ~seg_out.raised
            /\ Len(seg_out.files) = full + (IF rest > 0 THEN 1 ELSE 0)
            /\ \A k \in 1..full :
                   /\ seg_out.files[k].ord = k
                   /\ seg_out.files[k].start = (k - 1) * 20000
                   /\ seg_out.files[k].piece = 20000
                   /\ seg_out.files[k].looped = 20000
                   /\ seg_out.files[k].len = 20000
            /\ rest > 0 =>
                   /\ seg_out.files[full + 1].ord = full + 1
                   /\ seg_out.files[full + 1].start = full * 20000
                   /\ seg_out.files[full + 1].piece = rest
                   /\ seg_out.files[full + 1].looped >= 20000
                   /\ seg_out.files[full + 1].len = 20000

\* a 45 s clip: two full segments and the last 5 s looped
C22_Witness ==
    /\ seg_pc = "segmented" /\ seg_in = 45000
    /\ Len(seg_out.files) = 3
    /\ seg_out.files[2].start = 20000
    /\ seg_out.files[3].start = 40000 /\ seg_out.files[3].piece = 5000
    /\ seg_out.files[3].len = 20000

\* C23: the stages of one request run in sequence: no segment is exported
\* once a segment has been scored, every listed segment is scored and
\* predictions.csv holds the request's rows before the vote, the label is
\* set by the vote alone, the finally block is the last stage, and a failed
\* write of predictions.csv gives no AD/HC label.
C23_StagesInSequence ==
    [][\A r \in Requests :
          /\ req'[r].results # <<>> =>
                 /\ req'[r].pc \in {"loop", "vote", "finally", "done"}
                 /\ req'[r].segment_files # <<>>
          /\ (req[r].results # <<>> /\ req'[r].pc # "idle") =>
                 req'[r].exported = req[r].exported
          /\ req'[r].pc = "vote" =>
                 /\ Len(req'[r].results) = Len(req'[r].segment_files)
                 /\ predictions_csv'.exists
                 /\ predictions_csv'.rows = save_predictions(req'[r].results)
          /\ (req'[r].ret \in {"AD", "HC"} /\ req[r].ret \notin {"AD", "HC"}) =>
                 req[r].pc = "vote" /\ req'[r].pc = "finally"
          /\ (req'[r].pc = "done" /\ req[r].pc # "done") => req[r].pc = "finally"
          /\ req[r].pc = "finally" => req'[r].pc \in {"finally", "done"}
          /\ req'[r].failure = "OSError: predictions.csv" =>
                 req'[r].ret \notin {"AD", "HC"}]_vars

\* a request of two segments that ended with a label, its rows in the file
C23_Witness ==
    /\ req[1].pc = "done" /\ req[1].ret \in {"AD", "HC"}
    /\ Len(req[1].results) = 2
    /\ predictions_csv.rows = save_predictions(req[1].results)

\* the rearrangements of a table
RowOrders(t) ==
    {[i \in 1..Len(t) |-> t[p[i]]] :
        p \in {f \in [1..Len(t) -> 1..Len(t)] :
                  \A i, j \in 1..Len(t) : f[i] = f[j] => i = j}}

\* C24: the vote does not depend on the order of the rows: every
\* rearrangement of the table is voted as the table is.
C24_OrderIrrelevant ==
    vote_pc = "float_voted" =>
        \A t \in RowOrders(vote_in) :
            ClassificationLabel(weighted_majority_voting_binary64(t)) = vote_out

\* C24 for tables of at most three rows
C24_OrderIrrelevantUpToThreeRows ==
    (vote_pc = "float_voted" /\ Len(vote_in) <= 3) =>
        \A t \in RowOrders(vote_in) :
            ClassificationLabel(weighted_majority_voting_binary64(t)) = vote_out

\* C24 in the exact arithmetic of hundredths
C24_OrderIrrelevantExact ==
    vote_pc = "voted" =>
        \A t \in RowOrders(vote_in) :
            ClassificationLabel(weighted_majority_voting(t)) = vote_out

\* C25 (backend/api/server.py): the pipeline is started only with a
\* language set and the upload flag up; the flag goes up only by an /upload
\* that stored a file, and /selected-language, /cancel and the end of a
\* classification take it down; an /upload with no language set stores
\* nothing and leaves the flag down.
C25_PipelineNeedsUpload ==
    [][variant = "backend" =>
          /\ \A r \in Requests :
                 (req[r].pc = "idle" /\ req'[r].pc # "idle") =>
                     selected_language_code # "None" /\ UPLOAD_STATUS
          /\ (UPLOAD_STATUS' /\ ~UPLOAD_STATUS) =>
                 /\ selected_language_code # "None"
                 /\ \E rec \in Recordings, now \in 1..MaxClock :
                        /\ upload_audio(rec, now)
                        /\ \E k \in 1..Len(uploads'[UPLOAD_FOLDER]) :
                               uploads'[UPLOAD_FOLDER][k] =
                                   [name |-> StampedWav(now), rec |-> rec]
          /\ (\/ \E code \in LanguageCodes : selected_language(code)
              \/ cancel_process
              \/ \E r \in Requests : Respond(r)) => ~UPLOAD_STATUS'
          /\ (/\ selected_language_code = "None"
              /\ \E rec \in Recordings, now \in 1..MaxClock : upload_audio(rec, now))
                 => uploads' = uploads /\ ~UPLOAD_STATUS']_vars

\* a pipeline started from the second upload, after the first classification
C25_Witness ==
    /\ variant = "backend"
    /\ served = 5
    /\ req[1].pc = "segment"
    /\ UPLOAD_STATUS
    /\ Len(uploads[UPLOAD_FOLDER]) = 2

\* C26 (backend/api/server.py): the file get_classification hands to the
\* pipeline is the one the latest /upload stored, recording_<time of that
\* upload>.wav.
C26_LatestUploadIsClassified ==
    [][\A r \in Requests :
           (variant = "backend" /\ req[r].pc = "idle" /\ req'[r].pc # "idle")
               => req'[r].audio_file_path = StampedWav(clock)]_vars

\* C26 with no /test-connection call and no re-encoded copy in the folder
C26_LatestUploadIsClassifiedPlainFolder ==
    [][\A r \in Requests :
           (/\ variant = "backend" /\ req[r].pc = "idle" /\ req'[r].pc # "idle"
            /\ \A k \in 1..Len(uploads[UPLOAD_FOLDER]) :
                   /\ uploads[UPLOAD_FOLDER][k].name # TestConnectionWav
                   /\ uploads[UPLOAD_FOLDER][k].name.re = 0)
               => req'[r].audio_file_path = StampedWav(clock)]_vars


\* C27: the k-th segment scored and the k-th row of predictions.csv belong
\* to <base>_segment<k>.wav, for every number of segments of the recording.
C27_ScoredInOrdinalOrder ==
    /\ \A k \in 1..Len(req[1].results) : req[1].results[k].file_name.ord = k
    /\ predictions_csv.exists =>
           \A k \in 1..Len(predictions_csv.rows) :
               predictions_csv.rows[k].file_name.ord = k

\* C27 for recordings of at most nine segments
C27_ScoredInOrdinalOrderUpToNine ==
    Len(req[1].segment_files) <= 9 =>
        /\ \A k \in 1..Len(req[1].results) : req[1].results[k].file_name.ord = k
        /\ predictions_csv.exists =>
               \A k \in 1..Len(predictions_csv.rows) :
                   predictions_csv.rows[k].file_name.ord = k


\* the finally block of request r runs in this step
Finalized(r) == req[r].pc = "finally" /\ req'[r].pc = "done"

\* C28: when a request that went through the re-encode fallback has run its
\* finally block, the segments it exported and the re-encoded copy
\* <base>_reencoded.wav it wrote next to the upload are gone.
C28_TransientFilesRemoved ==
    [][\A r \in Requests :
           (Finalized(r) /\ req[r].reencodes > 0)
               => /\ \A f \in processed_audio'[PROCESSED_DIR].files : f.owner # r
                  /\ \A k \in 1..Len(uploads'[UPLOAD_FOLDER]) :
                         uploads'[UPLOAD_FOLDER][k].name
                             # ReencodedName(req[r].audio_file_path)]_vars

\* C28 for the exported segments alone
C28_SegmentsRemoved ==
    [][\A r \in Requests :
           (Finalized(r) /\ req[r].reencodes > 0)
               => \A f \in processed_audio'[PROCESSED_DIR].files : f.owner # r]_vars


\* C29 (server/server/prediction_script.py): the finally block leaves the
\* computed result in place, and what predict_final_classification hands
\* to its caller is 'AD', 'HC' or the error outcome, never an exception.
C29_CleanupKeepsResult ==
    [][\A r \in Requests :
           (variant = "server" /\ Finalized(r))
               => /\ req'[r].ret = req[r].ret
                  /\ req'[r].ret \in {"AD", "HC", ErrorOutcome}]_vars

\* C29 when both uploads/recording.wav and uploads/test_connection.wav exist
C29_CleanupKeepsResultBothFiles ==
    [][\A r \in Requests :
           (/\ variant = "server" /\ Finalized(r)
            /\ HasFile(UPLOAD_DIR, RecordingWav)
            /\ HasFile(UPLOAD_DIR, TestConnectionWav))
               => /\ req'[r].ret = req[r].ret
                  /\ req'[r].ret \in {"AD", "HC", ErrorOutcome}]_vars


\* C30: predictions.csv is written only by a request that has scored every
\* one of its segments and has not failed, and then with one row for each
\* segment; the step in which a request fails, and every later step of that
\* request up to its return, leaves predictions.csv as it was.
C30_AuditAllOrNothing ==
    [][/\ predictions_csv' # predictions_csv =>
              \E r \in Requests :
                  /\ req[r].pc = "loop" /\ req'[r].pc = "vote"
                  /\ req[r].failure = "none"
                  /\ Len(req[r].results) = Len(req[r].segment_files)
                  /\ \A k \in 1..Len(req[r].segment_files) :
                         req[r].results[k].file_name = req[r].segment_files[k]
                  /\ predictions_csv'.exists
                  /\ predictions_csv'.rows = save_predictions(req[r].results)
       /\ \A r \in Requests :
              (req'[r] # req[r] /\ req'[r].failure # "none" /\ req'[r].pc # "idle")
                  => predictions_csv' = predictions_csv]_vars

\* a request that scored its first segment and failed on the second, after
\* an earlier request wrote its one row
C30_Witness ==
    \E r \in Requests :
        /\ req[r].pc = "done" /\ req[r].failure # "none"
        /\ Len(req[r].segment_files) = 2 /\ Len(req[r].results) = 1
        /\ predictions_csv.exists /\ Len(predictions_csv.rows) = 1
        /\ predictions_csv.rows[1].file_name # req[r].results[1].file_name

====
